---- MODULE Spec2Model ----
(***************************************************************************)
(* Model of the WordNet Aura loader (src/bin/auraLoader.py) with the       *)
(* mapping produced by src/bin/buildMetadata.py.                           *)
(*                                                                         *)
(* The loader compiles Cypher text; the model gives every compiled         *)
(* expression and statement the value Cypher computes for it:              *)
(*   - a string is a sequence of characters, NULL is a value of its own;   *)
(*   - trim() removes leading and trailing whitespace, and U+FEFF is not   *)
(*     whitespace; replace(x, U+FEFF, '') removes every U+FEFF;            *)
(*   - toInteger()/toFloat() of a string that is not a number is NULL;     *)
(*   - a comparison with NULL is NULL, and WHERE keeps a row only when     *)
(*     its predicate is true;                                              *)
(*   - MERGE on a NULL property value raises an error;                     *)
(*   - CALL { } IN TRANSACTIONS OF k ROWS commits every k rows, and an     *)
(*     error rolls back the open transaction only and fails the statement. *)
(***************************************************************************)
EXTENDS Integers, Sequences, FiniteSets, TLC

VARIABLES
    cRaw,      \* cast harness: the raw column value (row.<column>)
    cSpec,     \* cast harness: the FieldSpec
    cOut,      \* cast harness: value of the compiled expression, once evaluated
    cDone,     \* cast harness: the expression has been evaluated
    graph,     \* the database: [nodes, edges]
    last,      \* load harness: what is kept of the statement executed last
    cfg,       \* a run of main(): command line, mapping and source files
    pc,        \* a run of main(): where it is
    idx,       \* a run of main(): position in the loop it is in
    log,       \* a run of main(): the statements sent to the database, in order
    exit,      \* a run of main(): the exit code, once pc is "exited" or "raised"
    driver,    \* a run of main(): the Neo driver, "none", "open" or "closed"
    schema,    \* the database: the constraints and indexes created
    msgs,      \* a run of main(): the messages printed
    common,    \* a run of main(): params_common, with the batch id
    hist       \* re-invocation: the graph the first invocation started on,
               \* whether an invocation was cut short, whether in the
               \* middle of a source file, what was last typed at the
               \* cleanup prompt, and the number of the invocation

castVars == <<cRaw, cSpec, cOut, cDone>>

loadVars == <<graph, last>>

runVars == <<cfg, pc, idx, log, exit, driver, schema, msgs, common, hist>>

vars == <<cRaw, cSpec, cOut, cDone, graph, last,
          cfg, pc, idx, log, exit, driver, schema, msgs, common, hist>>

-----------------------------------------------------------------------------
(* Bounds *)

\* longest raw column value of the cast harness
MaxLen == 3

\* most rows of a source file
MaxRows == 2

-----------------------------------------------------------------------------
(* Characters and strings *)

BOM == "BOM"
SP == " "
BS == "\\"

Digits == {"1", "2"}

\* the characters raw values are built from: U+FEFF, a blank, the two
\* characters of the \N sentinel, and digits
Alphabet == {BOM, SP, BS, "N"} \cup Digits

Strings(n) == UNION {[1..k -> Alphabet] : k \in 0..n}

Empty == <<>>

\* '\\N' in the compiled Cypher: backslash followed by N
Sentinel == <<BS, "N">>

-----------------------------------------------------------------------------
(* Cypher values *)

Null == [t |-> "null"]

StrV(s) == [t |-> "str", s |-> s]

IntV(n) == [t |-> "int", n |-> n]

FltV(n) == [t |-> "float", n |-> n]

IsNull(v) == v.t = "null"

\* replace(x, U+FEFF, '')
CyReplaceBOM(v) ==
    IF IsNull(v) THEN Null
    ELSE StrV(SelectSeq(v.s, LAMBDA c : c # BOM))

RECURSIVE LTrim(_)
LTrim(s) == IF s # <<>> /\ Head(s) = SP THEN LTrim(Tail(s)) ELSE s

RECURSIVE RTrim(_)
RTrim(s) ==
    IF s # <<>> /\ s[Len(s)] = SP THEN RTrim(SubSeq(s, 1, Len(s) - 1)) ELSE s

\* trim(x)
CyTrim(v) == IF IsNull(v) THEN Null ELSE StrV(RTrim(LTrim(v.s)))

\* CASE WHEN x = '\\N' THEN '' ELSE x END  (x = '\\N' is NULL for a NULL x)
CySentinelToEmpty(v) ==
    IF ~IsNull(v) /\ v.s = Sentinel THEN StrV(Empty) ELSE v

LowerChar(c) == IF c = "N" THEN "n" ELSE c

\* toLower(x)
CyToLower(v) ==
    IF IsNull(v) THEN Null ELSE StrV([i \in 1..Len(v.s) |-> LowerChar(v.s[i])])

DigitVal(c) == IF c = "1" THEN 1 ELSE 2

RECURSIVE Number(_)
Number(s) ==
    IF s = <<>> THEN 0
    ELSE 10 * Number(SubSeq(s, 1, Len(s) - 1)) + DigitVal(s[Len(s)])

IsNumber(s) == s # <<>> /\ \A i \in 1..Len(s) : s[i] \in Digits

\* toInteger(x)
CyToInteger(v) ==
    IF IsNull(v) THEN Null
    ELSE IF v.t = "str" THEN (IF IsNumber(v.s) THEN IntV(Number(v.s)) ELSE Null)
    ELSE IntV(v.n)

\* toFloat(x)
CyToFloat(v) ==
    IF IsNull(v) THEN Null
    ELSE IF v.t = "str" THEN (IF IsNumber(v.s) THEN FltV(Number(v.s)) ELSE Null)
    ELSE FltV(v.n)

-----------------------------------------------------------------------------
(* Expression compiler *)

FieldTypes == {"string", "int", "float"}

\* a FieldSpec: type, whether "lower" is among the transforms, nullable
FieldSpecs == [type : FieldTypes, lower : BOOLEAN, nullable : BOOLEAN]

FS(type, lower, nullable) == [type |-> type, lower |-> lower, nullable |-> nullable]

\* the normalisation type_cast starts with: BOM removed, then trimmed, then
\* the sentinel turned into ''
CastNormalize(raw) == CySentinelToEmpty(CyTrim(CyReplaceBOM(raw)))

type_cast(raw, spec) ==
    LET e1 == CastNormalize(raw)
        e2 == IF spec.lower THEN CyToLower(e1) ELSE e1
    IN  IF spec.type = "int" THEN CyToInteger(e2)
        ELSE IF spec.type = "float" THEN CyToFloat(e2)
        ELSE e2

\* expr IS NULL OR expr = '' OR expr = '\\N', on the raw column value
NullCheck(raw) == IsNull(raw) \/ raw.s = Empty \/ raw.s = Sentinel

nullable_cast(raw, spec) ==
    IF spec.nullable
    THEN (IF NullCheck(raw) THEN Null ELSE type_cast(raw, spec))
    ELSE type_cast(raw, spec)

-----------------------------------------------------------------------------
(* Cast harness: one raw value, one FieldSpec, the compiled expression      *)
(* evaluated on it.                                                         *)

RawValues == {Null} \cup {StrV(s) : s \in Strings(MaxLen)}

\* the harness starts on any raw value and FieldSpec; the database and the
\* run are at rest
CastInit ==
    /\ cRaw \in RawValues
    /\ cSpec \in FieldSpecs
    /\ cOut = Null
    /\ cDone = FALSE
    /\ graph = [nodes |-> <<>>, edges |-> <<>>]
    /\ last = [op |-> "none", re |-> FALSE, multi |-> FALSE]
    /\ cfg = [password |-> FALSE]
    /\ pc = "idle"
    /\ idx = 0
    /\ log = <<>>
    /\ exit = 0
    /\ driver = "none"
    /\ schema = {}
    /\ msgs = {}
    /\ common = [source_system |-> "none", ingest_batch |-> "none", now |-> 0]
    /\ hist = [graph0 |-> graph, cut |-> FALSE, partial |-> FALSE, ans |-> <<>>, run |-> 1]

EvalNullableCast ==
    /\ ~cDone
    /\ cOut' = nullable_cast(cRaw, cSpec)
    /\ cDone' = TRUE
    /\ UNCHANGED <<cRaw, cSpec>>

CastNext == EvalNullableCast /\ UNCHANGED loadVars /\ UNCHANGED runVars

SpecCast == CastInit /\ [][CastNext]_vars

\* a BOM, alone or among surrounding blanks
BomOnly(s) ==
    /\ \E i \in DOMAIN s : s[i] = BOM
    /\ \A i \in DOMAIN s : s[i] \in {BOM, SP}

\* the sentinel, the empty string, or nothing but a BOM
BlankInput(raw) ==
    /\ ~IsNull(raw)
    /\ raw.s = Sentinel \/ raw.s = Empty \/ BomOnly(raw.s)

\* C4: on the sentinel, the empty string or a value of nothing but a BOM the
\* compiled expression yields null for a nullable field, and the empty
\* string for a non-nullable string field.
C4_SentinelNormalization ==
    (cDone /\ BlankInput(cRaw)) =>
        IF cSpec.nullable THEN cOut = Null
        ELSE cSpec.type = "string" => cOut = StrV(Empty)

\* the part of C4 the compiled expression keeps: a nullable field is null on
\* the sentinel and on the empty string as they stand in the column
C4_RawBlankIsNull ==
    (cDone /\ cSpec.nullable /\ ~IsNull(cRaw) /\ cRaw.s \in {Sentinel, Empty})
        => cOut = Null

-----------------------------------------------------------------------------
(* The mapping (build_required_mapping)                                     *)

FSC(column, type, lower, nullable) ==
    [column |-> column, type |-> type, lower |-> lower, nullable |-> nullable]

NodeSpecs ==
    [synset |->
        [source |-> "synset", label |-> "synset", key |-> {"synsetid"},
         mappings |->
            [synsetid |-> FSC("synsetid", "int", FALSE, FALSE),
             pos |-> FSC("pos", "string", TRUE, FALSE),
             definition |-> FSC("definition", "string", FALSE, FALSE)]],
     word |->
        [source |-> "word", label |-> "word", key |-> {"wordid"},
         mappings |->
            [wordid |-> FSC("wordid", "int", FALSE, FALSE),
             lemma |-> FSC("lemma", "string", TRUE, FALSE)]]]

\* match_on entries "sourceColumn[:targetProperty]" split at the colon
RelSpecs ==
    [membership_WORD |->
        [source |-> "sense", type |-> "WORD", direction |-> "OUT",
         from |-> [label |-> "synset",
                   match_on |-> {[col |-> "synsetid", prop |-> "synsetid"]}],
         to |-> [label |-> "word",
                 match_on |-> {[col |-> "wordid", prop |-> "wordid"]}],
         properties |->
            [rank |-> FSC("rank", "int", FALSE, TRUE),
             lexid |-> FSC("lexid", "int", FALSE, TRUE),
             tagcount |-> FSC("tagcount", "int", FALSE, TRUE)]],
     semantic_SYNSET |->
        [source |-> "semlinkref", type |-> "SYNSET", direction |-> "OUT",
         from |-> [label |-> "synset",
                   match_on |-> {[col |-> "synsetid1", prop |-> "synsetid"]}],
         to |-> [label |-> "synset",
                 match_on |-> {[col |-> "synsetid2", prop |-> "synsetid"]}],
         properties |->
            [linkid |-> FSC("linkid", "int", FALSE, FALSE)]]]

NodeKeys == DOMAIN NodeSpecs

RelKeys == DOMAIN RelSpecs

\* derived_relationships.promote_named_edges.map, in its order
PromoteMap ==
    << [linkid |-> 1, type |-> "HYPERNYM"],
       [linkid |-> 2, type |-> "HYPONYM"],
       [linkid |-> 3, type |-> "INSTANCE_HYPERNYM"],
       [linkid |-> 4, type |-> "INSTANCE_HYPONYM"],
       [linkid |-> 12, type |-> "PART_MERONYM"],
       [linkid |-> 14, type |-> "MEMBER_MERONYM"],
       [linkid |-> 16, type |-> "SUBSTANCE_MERONYM"] >>

StampProps == {"source_system", "ingest_batch", "ingested_at"}

-----------------------------------------------------------------------------
(* The graph: nodes and relationships as bags (element -> number of copies) *)
(* A node is [label, props]; a relationship is [type, from, to, props],     *)
(* from and to naming the end nodes by label and matched property values.   *)

EmptyBag == [x \in {} |-> 0]

BagAdd(b, e, n) ==
    IF n = 0 THEN b
    ELSE [x \in DOMAIN b \cup {e} |->
            (IF x \in DOMAIN b THEN b[x] ELSE 0) + (IF x = e THEN n ELSE 0)]

RECURSIVE Copies(_, _)
Copies(b, S) ==
    IF S = {} THEN 0
    ELSE LET e == CHOOSE x \in S : TRUE IN b[e] + Copies(b, S \ {e})

BagSize(b) == Copies(b, DOMAIN b)

\* every element of S replaced by its image under the function f
BagUpdate(b, S, f) ==
    LET img == {f[e] : e \in S}
        keep == DOMAIN b \ S
    IN  [x \in keep \cup img |->
            (IF x \in keep THEN b[x] ELSE 0)
            + Copies(b, {e \in S : f[e] = x})]

\* SET: the properties named in new overwrite the element's
SetProps(e, new) ==
    [e EXCEPT !.props =
        [p \in DOMAIN @ \cup DOMAIN new |->
            IF p \in DOMAIN new THEN new[p] ELSE @[p]]]

Stamps(params) ==
    [source_system |-> StrV(params.source_system),
     ingest_batch |-> StrV(params.ingest_batch),
     ingested_at |-> IntV(params.now)]

Merge2(f, g) ==
    [p \in DOMAIN f \cup DOMAIN g |-> IF p \in DOMAIN f THEN f[p] ELSE g[p]]

-----------------------------------------------------------------------------
(* Statement builder                                                        *)

\* the skip guard's normalisation: trimmed, then BOM removed, then the
\* sentinel turned into ''
GuardNormalize(raw) == CySentinelToEmpty(CyReplaceBOM(CyTrim(raw)))

\* (CASE ... END) <> '' is true: NULL <> '' is NULL and the row is dropped
GuardPass(raw) ==
    LET v == GuardNormalize(raw) IN ~IsNull(v) /\ v.s # Empty

\* toInteger(replace(trim(row.col), BOM, '')) of match_expr and of the
\* linkid in the MERGE pattern
RefInteger(raw) == CyToInteger(CyReplaceBOM(CyTrim(raw)))

\* CREATE in place of MERGE: a new node whatever the graph holds
MergeNodeAlwaysCreate(nodes, label, keyVals) ==
    LET n == [label |-> label, props |-> keyVals]
    IN  [nodes |-> BagAdd(nodes, n, 1), bound |-> {n}, created |-> TRUE]

\* MERGE (n:label {key...}): the matching nodes, or a new one
MergeNode(nodes, label, keyVals) ==
    LET found == {n \in DOMAIN nodes :
                    /\ n.label = label
                    /\ \A k \in DOMAIN keyVals :
                         k \in DOMAIN n.props /\ n.props[k] = keyVals[k]}
    IN  IF found # {}
        THEN [nodes |-> nodes, bound |-> found, created |-> FALSE]
        ELSE LET n == [label |-> label, props |-> keyVals]
             IN  [nodes |-> BagAdd(nodes, n, 1), bound |-> {n}, created |-> TRUE]

\* key_preds of build_node_load_body
node_key_preds(spec, row) ==
    \A k \in spec.key : GuardPass(row[spec.mappings[k].column])

\* build_node_load_body applied to one row: WITH row WHERE key_preds
\* MERGE (n:label {merge_on}) SET setters
build_node_load_body(spec, row, params, g) ==
    LET m == spec.mappings
        keyVals == [k \in spec.key |-> type_cast(row[m[k].column], m[k])]
        setters ==
            Merge2([p \in DOMAIN m |->
                       IF p \in spec.key
                       THEN type_cast(row[m[p].column], m[p])
                       ELSE nullable_cast(row[m[p].column], m[p])],
                   Stamps(params))
    IN  IF ~node_key_preds(spec, row)
        THEN [st |-> "skipped", g |-> g]
        ELSE IF \E k \in spec.key : IsNull(keyVals[k])
        THEN [st |-> "error", g |-> g]
        ELSE LET mg == MergeNode(g.nodes, spec.label, keyVals)
                 upd == [n \in mg.bound |-> SetProps(n, setters)]
             IN  [st |-> IF mg.created THEN "created" ELSE "matched",
                  g |-> [g EXCEPT !.nodes = BagUpdate(mg.nodes, mg.bound, upd)]]

\* a MATCH on the label alone
match_expr_label_only(nodes, end, row) == {n \in DOMAIN nodes : n.label = end.label}

\* MATCH (x:label {prop: toInteger(...), ...})
match_expr(nodes, end, row) ==
    {n \in DOMAIN nodes :
        /\ n.label = end.label
        /\ \A k \in end.match_on :
             /\ k.prop \in DOMAIN n.props
             /\ ~IsNull(RefInteger(row[k.col]))
             /\ n.props[k.prop] = RefInteger(row[k.col])}

\* the name a relationship keeps for an end node
NodeRef(n, end) ==
    [label |-> n.label, at |-> [k \in {x.prop : x \in end.match_on} |-> n.props[k]]]

\* CREATE in place of MERGE for a relationship
MergeRelAlwaysCreate(edges, type, a, b, mergeProps, copies) ==
    LET e == [type |-> type, from |-> a, to |-> b, props |-> mergeProps]
    IN  [edges |-> BagAdd(edges, e, copies), bound |-> {e}, created |-> TRUE]

\* MERGE (a)-[r:type {props}]->(b) for one pair of end nodes
MergeRel(edges, type, a, b, mergeProps, copies) ==
    LET found == {e \in DOMAIN edges :
                    /\ e.type = type /\ e.from = a /\ e.to = b
                    /\ \A p \in DOMAIN mergeProps :
                         p \in DOMAIN e.props /\ e.props[p] = mergeProps[p]}
    IN  IF found # {}
        THEN [edges |-> edges, bound |-> found, created |-> FALSE]
        ELSE LET e == [type |-> type, from |-> a, to |-> b, props |-> mergeProps]
             IN  [edges |-> BagAdd(edges, e, copies), bound |-> {e}, created |-> TRUE]

\* the MERGE pattern without the linkid, as in the loader before the
\* discriminator was added to it
merge_rel_props_none(props, row) == [p \in {} |-> Null]

\* merge_rel_props: { linkid: toInteger(...) } in the MERGE pattern when the
\* relationship has a linkid property, nothing otherwise
merge_rel_props(props, row) ==
    IF "linkid" \in DOMAIN props
    THEN [p \in {"linkid"} |-> RefInteger(row["linkid"])]
    ELSE [p \in {} |-> Null]

\* key_preds AND linkid_guard of build_rel_load_body
rel_key_preds(spec, row) ==
    LET required_cols == {k.col : k \in spec.from.match_on \cup spec.to.match_on}
    IN  /\ \A c \in required_cols : GuardPass(row[c])
        /\ "linkid" \in DOMAIN spec.properties => GuardPass(row["linkid"])

\* build_rel_load_body applied to one row: WITH row WHERE key_preds
\* MATCH from, to MERGE pattern SET setters
build_rel_load_body(spec, row, params, g) ==
    LET props == spec.properties
        guard == rel_key_preds(spec, row)
        mergeProps == merge_rel_props(props, row)
        setters ==
            Merge2([p \in DOMAIN props |->
                       nullable_cast(row[props[p].column], props[p])],
                   Stamps(params))
        xf == match_expr(g.nodes, spec.from, row)
        xt == match_expr(g.nodes, spec.to, row)
    IN  IF ~guard THEN [st |-> "skipped", g |-> g]
        ELSE IF xf = {} \/ xt = {} THEN [st |-> "nomatch", g |-> g]
        ELSE IF \E p \in DOMAIN mergeProps : IsNull(mergeProps[p])
        THEN [st |-> "error", g |-> g]
        ELSE LET nf == CHOOSE n \in xf : TRUE
                 nt == CHOOSE n \in xt : TRUE
                 rf == NodeRef(nf, spec.from)
                 rt == NodeRef(nt, spec.to)
                 a == IF spec.direction = "OUT" THEN rf ELSE rt
                 b == IF spec.direction = "OUT" THEN rt ELSE rf
                 pairs == Copies(g.nodes, xf) * Copies(g.nodes, xt)
                 mg == MergeRel(g.edges, spec.type, a, b, mergeProps, pairs)
                 upd == [e \in mg.bound |-> SetProps(e, setters)]
             IN  [st |-> IF mg.created THEN "created" ELSE "matched",
                  g |-> [g EXCEPT !.edges = BagUpdate(mg.edges, mg.bound, upd)]]

-----------------------------------------------------------------------------
(* Batched execution: LOAD CSV ... CALL (row) { body } IN TRANSACTIONS OF   *)
(* k ROWS. s.cur is the graph inside the open transaction, s.committed the  *)
(* graph as last committed, s.cnt the rows of the open transaction.         *)

Body(kind, spec, row, params, g) ==
    IF kind = "nodes" THEN build_node_load_body(spec, row, params, g)
    ELSE build_rel_load_body(spec, row, params, g)

\* IN TRANSACTIONS OF k ROWS: the open transaction commits with its k-th row
ChunkFull(cnt, k) == cnt >= k

RECURSIVE RunRows(_, _, _, _, _, _, _)
RunRows(kind, spec, rows, k, params, s, i) ==
    IF i > Len(rows)
    THEN [g |-> s.cur, err |-> FALSE, out |-> s.out,
          tx |-> s.tx + (IF s.cnt > 0 THEN 1 ELSE 0)]
    ELSE LET r == Body(kind, spec, rows[i], params, s.cur)
             full == ChunkFull(s.cnt + 1, k)
         IN  IF r.st = "error"
             THEN [g |-> s.committed, err |-> TRUE,
                   out |-> Append(s.out, "error"), tx |-> s.tx]
             ELSE RunRows(kind, spec, rows, k, params,
                          [cur |-> r.g,
                           committed |-> IF full THEN r.g ELSE s.committed,
                           cnt |-> IF full THEN 0 ELSE s.cnt + 1,
                           out |-> Append(s.out, r.st),
                           tx |-> IF full THEN s.tx + 1 ELSE s.tx],
                          i + 1)

\* the statement load_csv_batched composes, run on the rows of the source
load_csv_batched(kind, spec, rows, k, params, g) ==
    RunRows(kind, spec, rows, k, params,
            [cur |-> g, committed |-> g, cnt |-> 0, out |-> <<>>, tx |-> 0], 1)

-----------------------------------------------------------------------------
(* Derived-edge promotion                                                   *)

Coalesce(props, p, dflt) ==
    IF p \in DOMAIN props /\ ~IsNull(props[p]) THEN props[p] ELSE dflt

\* MATCH (a:synset)-[r:SYNSET {linkid:$lid}]->(b:synset)
PromoteMatches(edges, lid) ==
    {r \in DOMAIN edges :
        /\ r.type = "SYNSET"
        /\ r.from.label = "synset" /\ r.to.label = "synset"
        /\ "linkid" \in DOMAIN r.props
        /\ r.props["linkid"] = IntV(lid)}

\* CREATE in place of MERGE in the promotion statement
PromoteAlwaysCreate(edges, x) == BagAdd(edges, x, 1)

\* MERGE (a)-[x:rtype]->(b): x is created only when a and b have no
\* relationship of its type yet
PromoteMerge(edges, x) ==
    IF \E e \in DOMAIN edges : e.type = x.type /\ e.from = x.from /\ e.to = x.to
    THEN edges
    ELSE BagAdd(edges, x, 1)

\* MERGE (a)-[x:rtype]->(b) ON CREATE SET ..., once per matched r
RECURSIVE PromoteRows(_, _, _, _)
PromoteRows(edges, rs, rtype, now) ==
    IF rs = {} THEN edges
    ELSE LET r == CHOOSE x \in rs : TRUE
             x == [type |-> rtype, from |-> r.from, to |-> r.to,
                   props |->
                     [source_system |->
                          Coalesce(r.props, "source_system", StrV("wordnet")),
                      ingest_batch |->
                          Coalesce(r.props, "ingest_batch", StrV("derived")),
                      ingested_at |-> IntV(now)]]
         IN  PromoteRows(PromoteMerge(edges, x), rs \ {r}, rtype, now)

\* one statement of promote_named_edges: the map entry m
PromoteEntry(g, m, now) ==
    [g EXCEPT !.edges =
        PromoteRows(g.edges, PromoteMatches(g.edges, m.linkid), m.type, now)]

RECURSIVE PromoteFrom(_, _, _)
PromoteFrom(g, i, now) ==
    IF i > Len(PromoteMap) THEN g
    ELSE PromoteFrom(PromoteEntry(g, PromoteMap[i], now), i + 1, now)

promote_named_edges(g, now) == PromoteFrom(g, 1, now)

-----------------------------------------------------------------------------
(* Sources: the rows LOAD CSV reads                                         *)

S1 == <<"1">>

S2 == <<"2">>

\* a key of nothing but BOMs and a blank: it normalises to empty under
\* type_cast, and trim finds no blank at either end
BomBlank == <<BOM, SP, BOM>>

SeqsUpTo(S, n) == UNION {[1..k -> S] : k \in 0..n}

SynsetRow(a) ==
    [synsetid |-> StrV(a), pos |-> StrV(<<SP, "N">>), definition |-> StrV(S1)]

WordRow(a) == [wordid |-> StrV(a), lemma |-> StrV(<<"N">>)]

SenseRow(a) ==
    [synsetid |-> StrV(S1), wordid |-> StrV(a), rank |-> StrV(S1),
     lexid |-> StrV(Empty), tagcount |-> StrV(Sentinel)]

SemlinkrefRow(b) ==
    [synsetid1 |-> StrV(S1), synsetid2 |-> StrV(S2), linkid |-> StrV(b)]

SynsetRows == {SynsetRow(a) : a \in {S1, S2, BomBlank}}

WordRows == {WordRow(a) : a \in {S1, Sentinel, <<"N">>}}

SenseRows == {SenseRow(a) : a \in {S1, Sentinel}}

SemlinkrefRows == {SemlinkrefRow(b) : b \in {S1, S2, Empty}}

SourceRows ==
    [synset |-> SynsetRows, word |-> WordRows, sense |-> SenseRows,
     semlinkref |-> SemlinkrefRows]

Files(source) == SeqsUpTo(SourceRows[source], MaxRows)

\* --batch-rows
ChunkSizes == 1..MaxRows

\* the n-th invocation of the loader: its batch id, version-int(time.time()),
\* and the time it writes, the clock reading the number of the invocation
RunOf(n) == [source_system |-> "wordnet", ingest_batch |-> "b" \o ToString(n), now |-> n]

Run1 == RunOf(1)

Run2 == RunOf(2)

-----------------------------------------------------------------------------
(* Load harness: statements of the loader run against the graph             *)

EmptyGraph == [nodes |-> EmptyBag, edges |-> EmptyBag]

Count(out, st) == Cardinality({i \in 1..Len(out) : out[i] = st})

\* what the harness keeps of a statement: which it was, whether it found
\* every row it merged already in the graph (a re-ingest), and whether it
\* ran to its end in more than one transaction
Summary(op, r) ==
    [op |-> op,
     re |-> Count(r.out, "created") = 0 /\ Count(r.out, "matched") > 0,
     multi |-> ~r.err /\ r.tx > 1]

LoadInit ==
    /\ graph = EmptyGraph
    /\ last = [op |-> "none", re |-> FALSE, multi |-> FALSE]
    /\ cRaw = Null
    /\ cSpec = FS("string", FALSE, FALSE)
    /\ cOut = Null
    /\ cDone = TRUE
    /\ cfg = [password |-> FALSE]
    /\ pc = "idle"
    /\ idx = 0
    /\ log = <<>>
    /\ exit = 0
    /\ driver = "none"
    /\ schema = {}
    /\ msgs = {}
    /\ common = [source_system |-> "none", ingest_batch |-> "none", now |-> 0]
    /\ hist = [graph0 |-> graph, cut |-> FALSE, partial |-> FALSE, ans |-> <<>>, run |-> 1]

\* the harness calls the loader's operations in any order; a call of
\* promote_named_edges, once begun, sends its statements to the end. idx is
\* the number of statements the call in progress has sent, last.re whether
\* they have all left the graph as it was
LoadNodes ==
    /\ idx = 0
    /\ \E key \in NodeKeys, k \in ChunkSizes :
        \E rows \in Files(NodeSpecs[key].source) :
          LET r == load_csv_batched("nodes", NodeSpecs[key], rows, k, Run1, graph)
          IN  /\ graph' = r.g
              /\ last' = Summary("nodes", r)
    /\ UNCHANGED idx

LoadRels ==
    /\ idx = 0
    /\ \E key \in RelKeys, k \in ChunkSizes :
        \E rows \in Files(RelSpecs[key].source) :
          LET r == load_csv_batched("rels", RelSpecs[key], rows, k, Run1, graph)
          IN  /\ graph' = r.g
              /\ last' = Summary("rels", r)
    /\ UNCHANGED idx

\* for m in derived["map"]: neo.run_void(cypher, {"lid": lid}), one
\* statement a step
Promote ==
    LET j == idx + 1
    IN  /\ graph' = PromoteEntry(graph, PromoteMap[j], Run1.now)
        /\ idx' = IF j = Len(PromoteMap) THEN 0 ELSE j
        /\ last' = [op |-> IF j = Len(PromoteMap) THEN "promote" ELSE "promoting",
                    re |-> (j = 1 \/ last.re) /\ graph' = graph,
                    multi |-> FALSE]

loadRest == <<cfg, pc, log, exit, driver, schema, msgs, common, hist>>

LoadNext ==
    \/ LoadNodes /\ UNCHANGED castVars /\ UNCHANGED loadRest
    \/ LoadRels /\ UNCHANGED castVars /\ UNCHANGED loadRest
    \/ Promote /\ UNCHANGED castVars /\ UNCHANGED loadRest

SpecLoad == LoadInit /\ [][LoadNext]_vars

-----------------------------------------------------------------------------
(* Properties of the load statements                                        *)

NodeStatements == {[kind |-> "nodes", spec |-> NodeSpecs[k]] : k \in NodeKeys}

RelStatements == {[kind |-> "rels", spec |-> RelSpecs[k]] : k \in RelKeys}

Statements == NodeStatements \cup RelStatements

\* a chunk size that holds every source file whole
OneChunk == MaxRows

Exec(st, rows, k, params, g) ==
    load_csv_batched(st.kind, st.spec, rows, k, params, g)

BagImage(b, f) == BagUpdate(b, DOMAIN b, f)

Unstamped(e) == [e EXCEPT !.props = [p \in DOMAIN @ \ StampProps |-> @[p]]]

\* the graph without its provenance stamps
UnstampedGraph(g) ==
    [nodes |-> BagImage(g.nodes, [n \in DOMAIN g.nodes |-> Unstamped(n)]),
     edges |-> BagImage(g.edges, [e \in DOMAIN g.edges |-> Unstamped(e)])]

KeyOfLabel(label) ==
    NodeSpecs[CHOOSE k \in NodeKeys : NodeSpecs[k].label = label].key

NodeIdent(n) ==
    [label |-> n.label, at |-> [k \in KeyOfLabel(n.label) |-> n.props[k]]]

EdgeIdent(e) ==
    [type |-> e.type, from |-> e.from, to |-> e.to,
     linkid |-> IF "linkid" \in DOMAIN e.props THEN e.props["linkid"] ELSE Null]

\* no two nodes with a label and key, no two relationships with a type,
\* end nodes and linkid
NoDuplicates(g) ==
    LET ns == BagImage(g.nodes, [n \in DOMAIN g.nodes |-> NodeIdent(n)])
        es == BagImage(g.edges, [e \in DOMAIN g.edges |-> EdgeIdent(e)])
    IN  (\A n \in DOMAIN ns : ns[n] = 1) /\ (\A e \in DOMAIN es : es[e] = 1)

\* C1: a node or relationship load run a second time on the same rows, by a
\* second invocation, leaves the graph as the first run left it but for the
\* provenance stamps, and leaves no duplicate node or relationship.
C1_LoadIdempotent ==
    \A st \in Statements :
      \A rows \in Files(st.spec.source) :
        LET r1 == Exec(st, rows, OneChunk, Run1, graph)
            r2 == Exec(st, rows, OneChunk, Run2, r1.g)
        IN  /\ UnstampedGraph(r2.g) = UnstampedGraph(r1.g)
            /\ NoDuplicates(r2.g)
            /\ r2.err = r1.err

\* a relationship load has just found every row it merged in the graph
C1_Witness ==
    /\ last.op = "rels" /\ last.re
    /\ DOMAIN graph.edges # {}

\* the columns whose value a row needs to be merged: the key columns of a
\* node, the end-node columns and the linkid of a relationship
KeyColumns(st) ==
    IF st.kind = "nodes"
    THEN {st.spec.mappings[k].column : k \in st.spec.key}
    ELSE {k.col : k \in st.spec.from.match_on \cup st.spec.to.match_on}
         \cup (IF "linkid" \in DOMAIN st.spec.properties THEN {"linkid"} ELSE {})

\* the value normalises to empty: BOM and surrounding blanks stripped, the
\* sentinel taken for empty
NormalizesToEmpty(raw) ==
    LET v == CastNormalize(raw) IN IsNull(v) \/ v.s = Empty

KeyMissing(st, row) == \E c \in KeyColumns(st) : NormalizesToEmpty(row[c])

\* C2: a row with a key column that normalises to empty or to the sentinel
\* creates and updates nothing, and the rows a load skips are as many as the
\* rows with such a column.
C2_KeySkip ==
    \A st \in Statements :
      \A rows \in Files(st.spec.source) :
        LET r == Exec(st, rows, OneChunk, Run1, graph)
            missing == {i \in DOMAIN rows : KeyMissing(st, rows[i])}
        IN  /\ \A i \in missing :
                 i <= Len(r.out) => r.out[i] \notin {"created", "matched"}
            /\ Count(r.out, "skipped") = Cardinality(missing)

SemanticSynset == [kind |-> "rels", spec |-> RelSpecs["semantic_SYNSET"]]

SynsetRef(raw) ==
    [label |-> "synset",
     at |-> [k \in {"synsetid"} |-> type_cast(raw, NodeSpecs["synset"].mappings["synsetid"])]]

HasNode(g, ref) == \E n \in DOMAIN g.nodes : NodeIdent(n) = ref

\* the row names two synsets of the graph and carries a discriminator
RowLinks(g, row) ==
    /\ HasNode(g, SynsetRef(row["synsetid1"]))
    /\ HasNode(g, SynsetRef(row["synsetid2"]))
    /\ ~IsNull(type_cast(row["linkid"], RelSpecs["semantic_SYNSET"].properties["linkid"]))

LinkidOf(row) ==
    type_cast(row["linkid"], RelSpecs["semantic_SYNSET"].properties["linkid"])

\* the SYNSET relationships from a to b with the linkid v
SynsetEdges(g, a, b, v) ==
    {e \in DOMAIN g.edges :
        /\ e.type = "SYNSET" /\ e.from = a /\ e.to = b
        /\ "linkid" \in DOMAIN e.props /\ e.props["linkid"] = v}

\* C3: after a load of the linkid-bearing relationship every row that names
\* two synsets of the graph has exactly one SYNSET relationship between them
\* with its linkid, however often the row is repeated, so that rows with the
\* same end nodes and different linkids have distinct relationships.
C3_DiscriminatorUnique ==
    \A rows \in Files("semlinkref") :
        LET r == Exec(SemanticSynset, rows, OneChunk, Run1, graph)
        IN  ~r.err =>
              \A i \in DOMAIN rows :
                RowLinks(graph, rows[i]) =>
                  LET es == SynsetEdges(r.g, SynsetRef(rows[i]["synsetid1"]),
                                        SynsetRef(rows[i]["synsetid2"]),
                                        LinkidOf(rows[i]))
                  IN  Copies(r.g.edges, es) = 1

\* two SYNSET relationships with different linkids join the same synsets
C3_Witness ==
    /\ last.op = "rels"
    /\ \E e1, e2 \in DOMAIN graph.edges :
        /\ e1.type = "SYNSET" /\ e2.type = "SYNSET"
        /\ e1.from = e2.from /\ e1.to = e2.to
        /\ e1.props["linkid"] # e2.props["linkid"]

\* every SYNSET relationship with a mapped linkid has exactly one
\* relationship of the mapped type between its end nodes
PromotedOnce(g) ==
    \A i \in DOMAIN PromoteMap :
      \A r \in PromoteMatches(g.edges, PromoteMap[i].linkid) :
        Copies(g.edges,
               {x \in DOMAIN g.edges :
                   x.type = PromoteMap[i].type /\ x.from = r.from /\ x.to = r.to}) = 1

\* every relationship of g is a relationship of h, as often
EdgesKept(g, h) ==
    \A e \in DOMAIN g.edges : e \in DOMAIN h.edges /\ h.edges[e] >= g.edges[e]

\* C5: promotion keeps every relationship as it is, leaves exactly one
\* relationship of the mapped type beside every SYNSET relationship with a
\* mapped linkid, and run again adds nothing: when its last statement has
\* returned the promoted relationships are there once and another
\* promotion leaves the graph as it is, and no statement of it removes or
\* changes a relationship or touches a node.
C5_PromotionAdditive ==
    /\ [](last.op = "promote" =>
            /\ PromotedOnce(graph)
            /\ promote_named_edges(graph, Run2.now) = graph)
    /\ [][last'.op \in {"promoting", "promote"} =>
            /\ EdgesKept(graph, graph')
            /\ graph'.nodes = graph.nodes]_vars

\* promotion has been run again on a graph that holds promoted edges
C5_Witness ==
    /\ last.op = "promote" /\ last.re
    /\ \E e \in DOMAIN graph.edges : e.type = "HYPERNYM"

\* C6: for every statement, source file and chunk size k, the load in k-row
\* chunks leaves the graph the load in a single chunk leaves.
C6_BatchingTransparent ==
    \A st \in Statements, k \in ChunkSizes :
      \A rows \in Files(st.spec.source) :
        Exec(st, rows, k, Run1, graph).g = Exec(st, rows, OneChunk, Run1, graph).g

\* what the two loads do leave: the same graph when no row raises; when a
\* row raises, the single chunk leaves the graph as it was and the k-row
\* chunks keep the rows of the chunks before the failing one
C6_BatchingTransparentNoError ==
    \A st \in Statements :
      \A rows \in Files(st.spec.source) :
        LET one == Exec(st, rows, OneChunk, Run1, graph)
        IN  \A k \in ChunkSizes :
              LET rk == Exec(st, rows, k, Run1, graph)
                  kept == k * ((Len(rk.out) - 1) \div k)
              IN  /\ rk.err = one.err
                  /\ ~one.err => rk.g = one.g
                  /\ one.err =>
                       /\ one.g = graph
                       /\ rk.g = Exec(st, SubSeq(rows, 1, kept), OneChunk, Run1, graph).g

\* a load has run to its end in more than one transaction
C6_Witness ==
    /\ last.multi
    /\ DOMAIN graph.nodes # {}


-----------------------------------------------------------------------------
(* A run of main(): what it reads                                           *)

\* mapping.runtime.indexes
Indexes ==
    << [kind |-> "constraint", on |-> "synset", property |-> "synsetid", unique |-> TRUE],
       [kind |-> "constraint", on |-> "word", property |-> "wordid", unique |-> TRUE],
       [kind |-> "rel_index", on |-> "SYNSET", property |-> "linkid", unique |-> FALSE] >>

\* the statement build_constraint_cypher compiles for an index entry
ConstraintStmt(ix) ==
    IF ix.kind = "constraint"
    THEN [ddl |-> IF ix.unique THEN "CREATE CONSTRAINT" ELSE "CREATE INDEX",
          on |-> ix.on, property |-> ix.property]
    ELSE [ddl |-> "CREATE INDEX", on |-> ix.on, property |-> ix.property]

build_constraint_cypher(indexes) ==
    LET known == SelectSeq(indexes, LAMBDA ix : ix.kind \in {"constraint", "rel_index"})
    IN  [i \in DOMAIN known |-> ConstraintStmt(known[i])]

\* mapping.sources, by name
Sources == <<"synset", "word", "sense", "semlinkref", "linkdef">>

\* a load_order item "section.key"
Item(section, key) == [section |-> section, key |-> key]

\* mapping.load_order
LoadOrder ==
    << Item("nodes", "synset"),
       Item("nodes", "word"),
       Item("relationships", "membership_WORD"),
       Item("relationships", "semantic_SYNSET"),
       Item("derived_relationships", "promote_named_edges") >>

\* mapping.validation.graph_assertions
GraphAssertions == <<"synsets", "synset_rels", "no_null_linkid", "memberships">>

Mapping(order, sources) == [load_order |-> order, sources |-> sources]

\* the mapping buildMetadata.py writes
MappingDeclared == Mapping(LoadOrder, Sources)

\* the same with an item of no known section after the first
MappingUnknownItem ==
    Mapping(<<LoadOrder[1], Item("reports", "summary")>> \o Tail(LoadOrder), Sources)

\* a third item that names no relationship spec
MappingUnresolved ==
    Mapping(<<LoadOrder[1], LoadOrder[2], Item("relationships", "antonym_WORD")>>,
            Sources)

\* the source of membership_WORD left out of mapping.sources
MappingNoSource == Mapping(LoadOrder, SelectSeq(Sources, LAMBDA s : s # "sense"))

Mappings == {MappingDeclared, MappingUnknownItem, MappingUnresolved, MappingNoSource}

\* semlinkref.csv without and with a row of empty linkid
SemlinkrefFiles ==
    { <<SemlinkrefRow(S1)>>, <<SemlinkrefRow(S1), SemlinkrefRow(Empty)>> }

\* the rows behind a source's URL
RowsOfSource(c, source) ==
    IF source = "synset" THEN <<SynsetRow(S1), SynsetRow(S2)>>
    ELSE IF source = "word" THEN <<WordRow(S1)>>
    ELSE IF source = "sense" THEN <<SenseRow(S1)>>
    ELSE IF source = "semlinkref" THEN c.semlinkref
    ELSE <<>>

RECURSIVE LStripBOM(_)
LStripBOM(s) == IF s # <<>> /\ Head(s) = BOM THEN LStripBOM(Tail(s)) ELSE s

\* rows whose column, stripped, is '' or the sentinel
count_missing_col_in_csv(rows, col) ==
    Cardinality({i \in DOMAIN rows :
        LET raw == IF col \in DOMAIN rows[i] /\ ~IsNull(rows[i][col])
                   THEN rows[i][col].s ELSE Empty
            v == LStripBOM(RTrim(LTrim(raw)))
        IN  v = Empty \/ v = Sentinel})

\* the results an assertion query can come back with: no row, a row without
\* an ok field, a row whose ok is true, 1, false or null
AssertionResults == {"norow", "nofield", "true", "one", "false", "null"}

\* a test that takes any row for one with an ok field
HasOkAnyRow(res) == res # "norow"

\* rows and "ok" in rows[0]
HasOk(res) == res \notin {"norow", "nofield"}

\* ok is True or ok == 1
OkPasses(res) == res \in {"true", "one"}

\* what a database loaded by the earlier loader (src/auraLoader.py) holds: a
\* SYNSET relationship merged on its end nodes alone, its linkid unset
LegacyRun == [source_system |-> "wordnet", ingest_batch |-> "b0", now |-> 0]

LegacyGraph ==
    LET g == load_csv_batched("nodes", NodeSpecs["synset"],
                              <<SynsetRow(S1), SynsetRow(S2)>>, MaxRows,
                              LegacyRun, EmptyGraph).g
        at(n) == [label |-> "synset", at |-> [k \in {"synsetid"} |-> IntV(n)]]
        e == [type |-> "SYNSET", from |-> at(1), to |-> at(2),
              props |-> Stamps(LegacyRun)]
    IN  [g EXCEPT !.edges = BagAdd(EmptyBag, e, 1)]

\* what an earlier invocation of this loader leaves when it ends before the
\* promotion, its semlinkref.csv holding a row the later file does not
PriorGraph ==
    LET g == load_csv_batched("nodes", NodeSpecs["synset"],
                              <<SynsetRow(S1), SynsetRow(S2)>>, MaxRows,
                              LegacyRun, EmptyGraph).g
    IN  load_csv_batched("rels", RelSpecs["semantic_SYNSET"],
                         <<SemlinkrefRow(S2)>>, MaxRows, LegacyRun, g).g

\* r.linkid IS NULL
NullLinkid(e) ==
    e.type = "SYNSET" /\ ("linkid" \notin DOMAIN e.props \/ IsNull(e.props["linkid"]))

\* list_bad_synset_rels: count(r) of the SYNSET relationships without linkid
list_bad_synset_rels(g) ==
    Copies(g.edges, {e \in DOMAIN g.edges : NullLinkid(e)})

\* a statement sent to the database: pos is the load_order position it
\* belongs to, 0 when it belongs to none
Stmt(kind, key, pos) == [kind |-> kind, key |-> key, pos |-> pos]

\* the SYNSET relationships of g without linkid
BadRels(g) == {e \in DOMAIN g.edges : NullLinkid(e)}

Min(a, b) == IF a <= b THEN a ELSE b

\* a delete statement without its LIMIT: every match goes at once
DeleteChoicesNoLimit(g, chunk) == {[e \in BadRels(g) |-> g.edges[e]]}

\* WITH r LIMIT $chunk: the matches one delete statement may take, chunk of
\* them or all when there are fewer; the database picks which
DeleteChoices(g, chunk) ==
    LET bad == BadRels(g)
        k == Min(chunk, Copies(g.edges, bad))
    IN  {d \in [bad -> 0..k] :
            /\ \A e \in bad : d[e] <= g.edges[e]
            /\ Copies(d, bad) = k}

\* DELETE r for the matches taken
DeleteBad(g, d) ==
    LET left(e) == IF e \in DOMAIN d THEN g.edges[e] - d[e] ELSE g.edges[e]
    IN  [g EXCEPT !.edges = [e \in {x \in DOMAIN g.edges : left(x) > 0} |-> left(e)]]

\* the loop of clean_bad_synset_rels from its iteration i on. The database
\* picks the matches of every statement, so the loop has a set of outcomes:
\* the graph it leaves, the total it returns and the statements it has sent
RECURSIVE CleanLoop(_, _, _, _, _)
CleanLoop(g, chunk, max_loops, i, total) ==
    IF i >= max_loops THEN {[g |-> g, total |-> total, sent |-> i]}
    ELSE UNION {LET c == Copies(d, DOMAIN d)
                IN  IF c = 0 THEN {[g |-> g, total |-> total, sent |-> i + 1]}
                    ELSE CleanLoop(DeleteBad(g, d), chunk, max_loops, i + 1, total + c)
                : d \in DeleteChoices(g, chunk)}

\* clean_bad_synset_rels(neo, chunk, max_loops): its outcomes
clean_bad_synset_rels(g, chunk, max_loops) == CleanLoop(g, chunk, max_loops, 0, 0)

\* chunk=20000 at the calls, max_loops: int = 1000
CleanChunk == 20000

CleanMaxLoops == 1000

\* what the operator may type at the prompt
Answers == { <<"y">>, <<SP, "Y">>, <<"n">>, <<>>, <<"y", "e", "s">> }

PyLowerChar(c) == IF c = "Y" THEN "y" ELSE IF c = "N" THEN "n" ELSE c

\* input(...).strip().lower()
ReadAnswer(typed) ==
    LET s == RTrim(LTrim(typed))
    IN  [i \in 1..Len(s) |-> PyLowerChar(s[i])]

\* a prompt that takes whatever is typed for a yes
ApprovedAny(typed) == TRUE

\* if ans == "y"
Approved(typed) == ReadAnswer(typed) = <<"y">>

-----------------------------------------------------------------------------

(* A run of main(). A statement is a blocking call: neo.run returns when    *)
(* the database has answered, so a step sends a statement and takes its     *)
(* result.                                                                  *)

RunInit ==
    /\ cfg \in [password : BOOLEAN,
                verify_checksums : BOOLEAN,
                verify_rowcounts : BOOLEAN,
                strict_missing_linkid : BOOLEAN,
                preview_null_linkid : BOOLEAN,
                auto_yes_clean_null_linkid : BOOLEAN,
                batch_rows : ChunkSizes,
                mapping : Mappings,
                semlinkref : SemlinkrefFiles]
    /\ graph \in {EmptyGraph, LegacyGraph, PriorGraph}
    /\ last = [op |-> "none", re |-> FALSE, multi |-> FALSE]
    /\ pc = "start"
    /\ idx = 0
    /\ log = <<>>
    /\ exit = 0
    /\ driver = "none"
    /\ schema = {}
    /\ msgs = {}
    /\ common = [source_system |-> "none", ingest_batch |-> "none", now |-> 0]
    /\ hist = [graph0 |-> graph, cut |-> FALSE, partial |-> FALSE, ans |-> <<>>, run |-> 1]
    /\ cRaw = Null
    /\ cSpec = FS("string", FALSE, FALSE)
    /\ cOut = Null
    /\ cDone = TRUE

\* a loop that passes over every other turn
SkipIndex(i) == i + 2

\* the next turn of a for loop
NextIndex(i) == i + 1

\* the password check, and Neo(...)
\* the failures main() ends on with sys.exit
FailureClasses == {"credentials", "checksum", "rowcount", "strict_linkid", "validation"}

\* a run that ends every failure with the code of an uncaught error
ExitCodeGeneric(class) == 1

\* the argument of sys.exit at the failure's site
ExitCode(class) ==
    CASE class = "credentials" -> 2
      [] class = "checksum" -> 3
      [] class = "rowcount" -> 4
      [] class = "strict_linkid" -> 6
      [] class = "validation" -> 5

Start ==
    /\ pc = "start"
    /\ IF ~cfg.password
       THEN /\ pc' = "exited"
            /\ exit' = ExitCode("credentials")
            /\ msgs' = msgs \cup {"ERROR: Provide --password"}
            /\ UNCHANGED <<idx, driver, common>>
       ELSE /\ pc' = "constraints"
            /\ idx' = 1
            /\ common' = RunOf(hist.run)
            /\ driver' = "open"
            /\ UNCHANGED <<exit, msgs>>
    /\ UNCHANGED <<cfg, log, schema, graph, hist>>

\* an exception nothing catches
Raise(what) ==
    /\ pc' = "raised"
    /\ exit' = 1
    /\ msgs' = msgs \cup {what}

\* what the driver can do with a statement: return its result, or raise
DbOutcomes == {"ok", "fail"}

\* session.run raises: the statement has been sent, nothing catches the error
DbFailure(stmt, partial) ==
    /\ log' = Append(log, stmt)
    /\ hist' = [hist EXCEPT !.cut = TRUE, !.partial = partial]
    /\ Raise("DatabaseError")

\* for stmt in build_constraint_cypher(...): neo.run_void(stmt)
RunConstraint ==
    /\ pc = "constraints"
    /\ LET stmts == build_constraint_cypher(Indexes)
       IN  /\ idx <= Len(stmts)
           /\ \E out \in DbOutcomes :
                IF out = "fail"
                THEN /\ DbFailure(Stmt("constraint", stmts[idx].on, 0), FALSE)
                     /\ UNCHANGED <<idx, schema>>
                ELSE /\ log' = Append(log, Stmt("constraint", stmts[idx].on, 0))
                     /\ schema' = schema \cup {stmts[idx]}
                     /\ idx' = NextIndex(idx)
                     /\ UNCHANGED <<pc, exit, msgs, hist>>
    /\ UNCHANGED <<cfg, common, driver, graph>>

\* if args.verify_checksums or args.verify_rowcounts or args.strict_missing_linkid
EnterPreflight ==
    /\ pc = "constraints"
    /\ idx > Len(build_constraint_cypher(Indexes))
    /\ pc' = IF \/ cfg.verify_checksums
                \/ cfg.verify_rowcounts
                \/ cfg.strict_missing_linkid
             THEN "preflight" ELSE "load"
    /\ idx' = 1
    /\ UNCHANGED <<cfg, common, log, exit, driver, schema, msgs, graph, hist>>

\* f"WARNING: semlinkref.csv has {missing} rows with empty linkid"
MissingWarning(missing) ==
    "WARNING: semlinkref.csv has " \o ToString(missing) \o " rows with empty linkid"

\* what a fetch of a source's URL comes to when a check compares it with
\* the manifest: the value of the manifest, another value, or
\* raise_for_status or the connection raises
FetchOutcomes(checked) == IF checked THEN {"ok", "mismatch", "raise"} ELSE {"ok"}

\* the fetch of count_missing_col_in_csv, made for semlinkref only
InspectOutcomes(name) == IF name = "semlinkref" THEN {"ok", "raise"} ELSE {"ok"}

\* one source of the preflight loop: the checksum, the row count, and for
\* semlinkref the count of rows without linkid, whose errors are caught
PreflightSource ==
    /\ pc = "preflight"
    /\ idx <= Len(cfg.mapping.sources)
    /\ LET name == cfg.mapping.sources[idx]
           missing == IF name = "semlinkref"
                      THEN count_missing_col_in_csv(RowsOfSource(cfg, name), "linkid")
                      ELSE 0
           warning == MissingWarning(missing)
       IN  \E sum \in FetchOutcomes(cfg.verify_checksums),
              rows \in FetchOutcomes(cfg.verify_rowcounts),
              insp \in InspectOutcomes(name) :
            IF sum = "raise"
            THEN Raise("HTTPError") /\ UNCHANGED idx
            ELSE IF sum = "mismatch"
            THEN /\ pc' = "exited" /\ exit' = ExitCode("checksum")
                 /\ msgs' = msgs \cup {"ERROR checksum mismatch"}
                 /\ UNCHANGED idx
            ELSE IF rows = "raise"
            THEN Raise("HTTPError") /\ UNCHANGED idx
            ELSE IF rows = "mismatch"
            THEN /\ pc' = "exited" /\ exit' = ExitCode("rowcount")
                 /\ msgs' = msgs \cup {"ERROR rowcount mismatch"}
                 /\ UNCHANGED idx
            ELSE IF insp = "raise"
            THEN /\ msgs' = msgs \cup {"WARNING: could not inspect linkid"}
                 /\ idx' = NextIndex(idx)
                 /\ UNCHANGED <<pc, exit>>
            ELSE IF missing > 0 /\ cfg.strict_missing_linkid
            THEN /\ pc' = "exited" /\ exit' = ExitCode("strict_linkid")
                 /\ msgs' = msgs \cup {warning}
                 /\ UNCHANGED idx
            ELSE /\ idx' = NextIndex(idx)
                 /\ msgs' = IF missing > 0 THEN msgs \cup {warning} ELSE msgs
                 /\ UNCHANGED <<pc, exit>>
    /\ UNCHANGED <<cfg, common, log, driver, schema, graph, hist>>

EndPreflight ==
    /\ pc = "preflight"
    /\ idx > Len(cfg.mapping.sources)
    /\ pc' = "load"
    /\ idx' = 1
    /\ UNCHANGED <<cfg, common, log, exit, driver, schema, msgs, graph, hist>>

\* a loop whose last branch takes every other item for the promotion
BranchElsePromote(item) ==
    IF item.section \in {"nodes", "relationships"} THEN item.section
    ELSE "derived_relationships"

\* the branch of the load loop an item takes: item.startswith("nodes."),
\* "relationships.", "derived_relationships.", else the skip
Branch(item) ==
    IF item.section \in {"nodes", "relationships", "derived_relationships"}
    THEN item.section
    ELSE "skip"

\* the item the load loop is at
InLoad == pc = "load" /\ idx <= Len(cfg.mapping.load_order)

CurItem == cfg.mapping.load_order[idx]

\* url_for_source_name finds the source
HasSource(c, name) == \E i \in DOMAIN c.mapping.sources : c.mapping.sources[i] = name

\* the rows of a file whose chunks can be committed when the statement is
\* cut short: whole chunks of k rows, or the whole file
CommittedPrefixes(rows, k) ==
    {m \in 0..Len(rows) : m % k = 0 \/ m = Len(rows)}

\* the driver raises in the middle of a load statement: the chunks
\* committed before stay
LoadFailure(kind, key, spec, rows) ==
    \E m \in CommittedPrefixes(rows, cfg.batch_rows) :
        /\ graph' = load_csv_batched(kind, spec, SubSeq(rows, 1, m),
                                     cfg.batch_rows, common, graph).g
        /\ DbFailure(Stmt(kind, key, idx), 0 < m /\ m < Len(rows))

\* item.startswith("nodes.")
LoadNodesItem ==
    /\ InLoad
    /\ Branch(CurItem) = "nodes"
    /\ IF CurItem.key \notin NodeKeys
       THEN Raise("KeyError") /\ UNCHANGED <<idx, log, graph, hist>>
       ELSE IF ~HasSource(cfg, NodeSpecs[CurItem.key].source)
       THEN Raise("RuntimeError: Source not found") /\ UNCHANGED <<idx, log, graph, hist>>
       ELSE LET spec == NodeSpecs[CurItem.key]
                rows == RowsOfSource(cfg, spec.source)
                r == load_csv_batched("nodes", spec, rows, cfg.batch_rows, common, graph)
            IN  \E out \in DbOutcomes :
                  IF out = "fail"
                  THEN LoadFailure("nodes", CurItem.key, spec, rows) /\ UNCHANGED idx
                  ELSE /\ log' = Append(log, Stmt("nodes", CurItem.key, idx))
                       /\ graph' = r.g
                       /\ IF r.err
                          THEN Raise("DatabaseError") /\ UNCHANGED idx
                          ELSE idx' = NextIndex(idx) /\ UNCHANGED <<pc, exit, msgs>>
                       /\ UNCHANGED hist
    /\ UNCHANGED <<cfg, common, driver, schema>>

\* if key == "semantic_SYNSET": the flags that call preview_and_maybe_clean
CleanupFollows(key) ==
    /\ key = "semantic_SYNSET"
    /\ cfg.auto_yes_clean_null_linkid \/ cfg.preview_null_linkid

\* item.startswith("relationships."): the load statement; the cleanup that
\* follows the load of semantic_SYNSET starts with the next statement
LoadRelsItem ==
    /\ InLoad
    /\ Branch(CurItem) = "relationships"
    /\ IF CurItem.key \notin RelKeys
       THEN Raise("KeyError") /\ UNCHANGED <<idx, log, graph, hist>>
       ELSE IF ~HasSource(cfg, RelSpecs[CurItem.key].source)
       THEN Raise("RuntimeError: Source not found") /\ UNCHANGED <<idx, log, graph, hist>>
       ELSE LET spec == RelSpecs[CurItem.key]
                rows == RowsOfSource(cfg, spec.source)
                r == load_csv_batched("rels", spec, rows, cfg.batch_rows, common, graph)
            IN  \E out \in DbOutcomes :
                  IF out = "fail"
                  THEN LoadFailure("rels", CurItem.key, spec, rows) /\ UNCHANGED idx
                  ELSE /\ log' = Append(log, Stmt("rels", CurItem.key, idx))
                       /\ graph' = r.g
                       /\ IF r.err
                          THEN Raise("DatabaseError") /\ UNCHANGED idx
                          ELSE IF CleanupFollows(CurItem.key)
                          THEN pc' = "clean_count" /\ UNCHANGED <<idx, exit, msgs>>
                          ELSE idx' = NextIndex(idx) /\ UNCHANGED <<pc, exit, msgs>>
                       /\ UNCHANGED hist
    /\ UNCHANGED <<cfg, common, driver, schema>>

\* list_bad_synset_rels, its count statement; preview_and_maybe_clean
\* returns when the count is 0
ListBadCount ==
    /\ pc = "clean_count"
    /\ \E out \in DbOutcomes :
         IF out = "fail"
         THEN DbFailure(Stmt("count_bad", "SYNSET", idx), FALSE) /\ UNCHANGED idx
         ELSE /\ log' = Append(log, Stmt("count_bad", "SYNSET", idx))
              /\ IF list_bad_synset_rels(graph) = 0
                 THEN /\ msgs' = msgs \cup {"Null-linkid check: none"}
                      /\ pc' = "load"
                      /\ idx' = NextIndex(idx)
                 ELSE /\ pc' = "clean_sample"
                      /\ UNCHANGED <<idx, msgs>>
              /\ UNCHANGED <<exit, hist>>
    /\ UNCHANGED <<cfg, common, driver, schema, graph>>

\* list_bad_synset_rels, its sample statement, and the preview printed
ListBadSample ==
    /\ pc = "clean_sample"
    /\ \E out \in DbOutcomes :
         IF out = "fail"
         THEN DbFailure(Stmt("sample_bad", "SYNSET", idx), FALSE)
         ELSE /\ log' = Append(log, Stmt("sample_bad", "SYNSET", idx))
              /\ pc' = IF cfg.auto_yes_clean_null_linkid THEN "clean_delete"
                       ELSE "clean_prompt"
              /\ UNCHANGED <<exit, msgs, hist>>
    /\ UNCHANGED <<cfg, common, idx, driver, schema, graph>>

\* ans = input(...).strip().lower(); if ans == "y". input() returns the
\* line typed, or raises EOFError at the end of the standard input
CleanPrompt ==
    /\ pc = "clean_prompt"
    /\ \/ Raise("EOFError") /\ UNCHANGED <<idx, hist>>
       \/ \E typed \in Answers :
            /\ hist' = [hist EXCEPT !.ans = typed]
            /\ IF Approved(typed)
               THEN pc' = "clean_delete" /\ UNCHANGED <<idx, msgs>>
               ELSE /\ msgs' = msgs \cup {"Leaving null-linkid relationships intact"}
                    /\ pc' = "load"
                    /\ idx' = NextIndex(idx)
            /\ UNCHANGED exit
    /\ UNCHANGED <<cfg, common, log, driver, schema, graph>>

\* the delete statements of the cleanup the run has sent for its item
DeletesSent ==
    Len(SelectSeq(log, LAMBDA s : s.kind = "delete_bad" /\ s.pos = idx))

\* clean_bad_synset_rels(neo, chunk=20000): one turn of its loop, a delete
\* statement whose matches the database picks; the loop ends when the
\* statement deletes nothing or after max_loops turns
CleanDelete ==
    /\ pc = "clean_delete"
    /\ \E out \in DbOutcomes :
         IF out = "fail"
         THEN /\ DbFailure(Stmt("delete_bad", "SYNSET", idx), FALSE)
              /\ UNCHANGED <<idx, graph>>
         ELSE \E d \in DeleteChoices(graph, CleanChunk) :
                /\ graph' = DeleteBad(graph, d)
                /\ log' = Append(log, Stmt("delete_bad", "SYNSET", idx))
                /\ IF Copies(d, DOMAIN d) = 0 \/ DeletesSent + 1 >= CleanMaxLoops
                   THEN /\ msgs' = msgs \cup {"Deleted null-linkid relationships"}
                        /\ pc' = "load"
                        /\ idx' = NextIndex(idx)
                   ELSE UNCHANGED <<pc, idx, msgs>>
                /\ UNCHANGED <<exit, hist>>
    /\ UNCHANGED <<cfg, common, driver, schema>>

\* the statements of promote_named_edges the run has sent for its item
PromotesSent ==
    Len(SelectSeq(log, LAMBDA s : s.kind = "promote" /\ s.pos = idx))

\* item.startswith("derived_relationships."): one statement of
\* promote_named_edges, for the next entry of the promotion map; the
\* message is printed before the first
PromoteItem ==
    /\ InLoad
    /\ Branch(CurItem) = "derived_relationships"
    /\ LET j == PromotesSent + 1
           announced == msgs \cup {"Promoting named edges..."}
       IN  \E out \in DbOutcomes :
             IF out = "fail"
             THEN /\ log' = Append(log, Stmt("promote", PromoteMap[j].type, idx))
                  /\ hist' = [hist EXCEPT !.cut = TRUE, !.partial = FALSE]
                  /\ pc' = "raised"
                  /\ exit' = 1
                  /\ msgs' = announced \cup {"DatabaseError"}
                  /\ UNCHANGED <<idx, graph>>
             ELSE /\ graph' = PromoteEntry(graph, PromoteMap[j], common.now)
                  /\ log' = Append(log, Stmt("promote", PromoteMap[j].type, idx))
                  /\ msgs' = announced
                  /\ idx' = IF j = Len(PromoteMap) THEN NextIndex(idx) ELSE idx
                  /\ UNCHANGED <<pc, exit, hist>>
    /\ UNCHANGED <<cfg, common, driver, schema>>

\* an item of no known section
SkipItem ==
    /\ InLoad
    /\ Branch(CurItem) = "skip"
    /\ msgs' = msgs \cup {"Skipping unknown load_order item"}
    /\ idx' = NextIndex(idx)
    /\ UNCHANGED <<cfg, common, pc, log, exit, driver, schema, graph, hist>>

EndLoad ==
    /\ pc = "load"
    /\ idx > Len(cfg.mapping.load_order)
    /\ pc' = "validate"
    /\ idx' = 1
    /\ UNCHANGED <<cfg, common, log, exit, driver, schema, msgs, graph, hist>>

\* "Validation FAILED: <cypher> -> <rows>": the message shows the rows
FailedMsg(res) ==
    IF res = "false" THEN "Validation FAILED: [{ok: false}]"
    ELSE IF res = "null" THEN "Validation FAILED: [{ok: null}]"
    ELSE "Validation FAILED: [{}]"

\* one assertion of the validation loop; res is what its query comes back with
Validate ==
    /\ pc = "validate"
    /\ idx <= Len(GraphAssertions)
    /\ \E out \in DbOutcomes :
         IF out = "fail"
         THEN DbFailure(Stmt("assert", GraphAssertions[idx], 0), FALSE) /\ UNCHANGED idx
         ELSE /\ log' = Append(log, Stmt("assert", GraphAssertions[idx], 0))
              /\ \E res \in AssertionResults :
                  IF HasOk(res)
                  THEN IF OkPasses(res)
                       THEN /\ msgs' = msgs \cup {"Validation OK"}
                            /\ idx' = NextIndex(idx)
                            /\ UNCHANGED <<pc, exit>>
                       ELSE /\ msgs' = msgs \cup {FailedMsg(res)}
                            /\ pc' = "exited"
                            /\ exit' = ExitCode("validation")
                            /\ UNCHANGED idx
                  ELSE /\ msgs' = msgs \cup {IF res = "norow" THEN "Validation result: []"
                                             ELSE "Validation result: [{}]"}
                       /\ idx' = NextIndex(idx)
                       /\ UNCHANGED <<pc, exit>>
              /\ UNCHANGED hist
    /\ UNCHANGED <<cfg, common, driver, schema, graph>>

\* neo.close() and "Ingest complete"
Finish ==
    /\ pc = "validate"
    /\ idx > Len(GraphAssertions)
    /\ driver' = "closed"
    /\ msgs' = msgs \cup {"Ingest complete"}
    /\ pc' = "done"
    /\ UNCHANGED <<cfg, common, idx, log, exit, schema, graph, hist>>

RunNext ==
    \/ Start /\ UNCHANGED castVars /\ UNCHANGED last
    \/ RunConstraint /\ UNCHANGED castVars /\ UNCHANGED last
    \/ EnterPreflight /\ UNCHANGED castVars /\ UNCHANGED last
    \/ PreflightSource /\ UNCHANGED castVars /\ UNCHANGED last
    \/ EndPreflight /\ UNCHANGED castVars /\ UNCHANGED last
    \/ LoadNodesItem /\ UNCHANGED castVars /\ UNCHANGED last
    \/ LoadRelsItem /\ UNCHANGED castVars /\ UNCHANGED last
    \/ ListBadCount /\ UNCHANGED castVars /\ UNCHANGED last
    \/ ListBadSample /\ UNCHANGED castVars /\ UNCHANGED last
    \/ CleanPrompt /\ UNCHANGED castVars /\ UNCHANGED last
    \/ CleanDelete /\ UNCHANGED castVars /\ UNCHANGED last
    \/ PromoteItem /\ UNCHANGED castVars /\ UNCHANGED last
    \/ SkipItem /\ UNCHANGED castVars /\ UNCHANGED last
    \/ EndLoad /\ UNCHANGED castVars /\ UNCHANGED last
    \/ Validate /\ UNCHANGED castVars /\ UNCHANGED last
    \/ Finish /\ UNCHANGED castVars /\ UNCHANGED last

SpecRun == RunInit /\ [][RunNext]_vars

-----------------------------------------------------------------------------
(* Properties of a run                                                      *)

\* the run is in its load loop, the cleanup of an item included
LoopPcs == {"load", "clean_count", "clean_sample", "clean_prompt", "clean_delete"}

\* the statements that belong to a load_order position
Loads == SelectSeq(log, LAMBDA s : s.pos > 0)

\* the statements that write to the database
Mutations ==
    SelectSeq(log, LAMBDA s :
        s.kind \in {"constraint", "nodes", "rels", "promote", "delete_bad"})

\* the kind of statement an item stands for
ItemKind(item) ==
    IF item.section = "nodes" THEN "nodes"
    ELSE IF item.section = "relationships" THEN "rels"
    ELSE IF item.section = "derived_relationships" THEN "promote"
    ELSE "none"

\* the statement is one its item may send
OfItem(s, item) ==
    \/ s.kind = ItemKind(item) /\ (s.kind = "promote" \/ s.key = item.key)
    \/ /\ s.kind \in {"count_bad", "sample_bad", "delete_bad"}
       /\ item = Item("relationships", "semantic_SYNSET")

\* C7: the statements of the load_order items are sent in the declared
\* order, one returning before the next is sent: each belongs to the item
\* at its position, none is sent for a position the loop has passed or not
\* reached, no item's load is sent twice, and when the loop has ended every
\* item of a known section has had its statement.
C7_Sequenced ==
    LET order == cfg.mapping.load_order
        ld == Loads
    IN  /\ \A i \in DOMAIN ld :
            /\ ld[i].pos \in DOMAIN order
            /\ OfItem(ld[i], order[ld[i].pos])
            /\ \A j \in DOMAIN ld : j < i => ld[j].pos <= ld[i].pos
            /\ \A j \in DOMAIN ld :
                 (j # i /\ ld[j].pos = ld[i].pos /\ ld[j].kind = ld[i].kind
                    /\ ld[i].kind \in {"nodes", "rels", "promote"})
                 => (ld[i].kind = "promote" /\ ld[j].key # ld[i].key)
        /\ pc \in LoopPcs => \A i \in DOMAIN ld :
                            \/ ld[i].pos < idx
                            \/ /\ ld[i].pos = idx
                               /\ (pc = "load") = (ld[i].kind = "promote")
        /\ pc \in {"validate", "done"} =>
             \A p \in DOMAIN order :
                ItemKind(order[p]) # "none" =>
                    \E i \in DOMAIN ld :
                        ld[i].pos = p /\ ld[i].kind = ItemKind(order[p])

\* a run of the declared mapping has ended with a statement sent for each
\* of its items
C7_Witness ==
    /\ pc = "done"
    /\ cfg.mapping = MappingDeclared
    /\ \A p \in DOMAIN LoadOrder : \E i \in DOMAIN Loads : Loads[i].pos = p

\* C8: a run that fails on a load_order item that resolves to no spec, or on
\* a spec whose source is not among the sources, has sent no statement that
\* writes to the database.
C8_ConfigErrorBeforeMutation ==
    (pc = "raised" /\ msgs \cap {"KeyError", "RuntimeError: Source not found"} # {})
        => Mutations = <<>>

\* C9: a run that ends on a checksum or row count mismatch has sent no
\* statement that writes to the database.
C9_IntegrityErrorBeforeMutation ==
    (pc = "exited" /\ exit \in {3, 4}) => Mutations = <<>>

\* C10: once an assertion has come back false, or with no row, the run has
\* ended with exit code 5 and "Ingest complete" is never printed.
C10_ValidationHardFailure ==
    ({FailedMsg("false"), FailedMsg("null"), "Validation result: []"} \cap msgs # {})
        => /\ pc = "exited" /\ exit = 5
           /\ "Ingest complete" \notin msgs

\* C11: a row without the ok field is reported and fails nothing: a run
\* ends on exit code 5 only with an assertion whose ok came back false or
\* null, never on the row without ok, and a run that reaches its end has
\* printed "Ingest complete" with exit code 0.
C11_MissingOkContinues ==
    /\ (pc = "exited" /\ exit = 5) =>
          /\ {FailedMsg("false"), FailedMsg("null")} \cap msgs # {}
          /\ FailedMsg("nofield") \notin msgs
    /\ ("Validation result: [{}]" \in msgs /\ pc = "exited") =>
          {FailedMsg("false"), FailedMsg("null")} \cap msgs # {}
    /\ pc = "done" => exit = 0 /\ "Ingest complete" \in msgs

\* a run has reported a row without ok and ended with "Ingest complete"
C11_Witness ==
    /\ pc = "done"
    /\ exit = 0
    /\ "Validation result: [{}]" \in msgs
    /\ "Ingest complete" \in msgs

-----------------------------------------------------------------------------
(* Re-invocation: a run cut short by the database, and the run started      *)
(* again on the same inputs.                                                *)

\* the runs that can be cut short and started again: a mapping whose items
\* resolve
ResumeInit ==
    /\ cfg \in [password : {TRUE},
                verify_checksums : BOOLEAN,
                verify_rowcounts : {FALSE},
                strict_missing_linkid : {FALSE},
                preview_null_linkid : BOOLEAN,
                auto_yes_clean_null_linkid : BOOLEAN,
                batch_rows : ChunkSizes,
                mapping : {MappingDeclared, MappingUnknownItem},
                semlinkref : SemlinkrefFiles]
    /\ graph \in {EmptyGraph, LegacyGraph}
    /\ last = [op |-> "none", re |-> FALSE, multi |-> FALSE]
    /\ pc = "start"
    /\ idx = 0
    /\ log = <<>>
    /\ exit = 0
    /\ driver = "none"
    /\ schema = {}
    /\ msgs = {}
    /\ common = [source_system |-> "none", ingest_batch |-> "none", now |-> 0]
    /\ hist = [graph0 |-> graph, cut |-> FALSE, partial |-> FALSE, ans |-> <<>>, run |-> 1]
    /\ cRaw = Null
    /\ cSpec = FS("string", FALSE, FALSE)
    /\ cOut = Null
    /\ cDone = TRUE

\* the invocations of a history
MaxInvocations == 2

\* the operator starts the loader again with the same command line, after
\* an invocation that ended on an error
Reinvoke ==
    /\ pc = "raised"
    /\ hist.run < MaxInvocations
    /\ pc' = "start"
    /\ idx' = 0
    /\ log' = <<>>
    /\ exit' = 0
    /\ driver' = "none"
    /\ msgs' = {}
    /\ common' = [source_system |-> "none", ingest_batch |-> "none", now |-> 0]
    /\ hist' = [hist EXCEPT !.run = @ + 1]
    /\ UNCHANGED <<cfg, schema, graph>>

ResumeNext ==
    \/ RunNext
    \/ Reinvoke /\ UNCHANGED castVars /\ UNCHANGED last

SpecResume == ResumeInit /\ [][ResumeNext]_vars

\* the graphs a load_order item can leave when nothing cuts it short; typed
\* is what is typed at the prompt of the cleanup
ItemEffect(c, item, p, g, typed) ==
    IF item.section = "nodes"
    THEN {load_csv_batched("nodes", NodeSpecs[item.key],
                           RowsOfSource(c, NodeSpecs[item.key].source),
                           c.batch_rows, p, g).g}
    ELSE IF item.section = "relationships"
    THEN LET r == load_csv_batched("rels", RelSpecs[item.key],
                                   RowsOfSource(c, RelSpecs[item.key].source),
                                   c.batch_rows, p, g).g
         IN  IF /\ item.key = "semantic_SYNSET"
                /\ \/ c.auto_yes_clean_null_linkid
                   \/ c.preview_null_linkid /\ Approved(typed)
             THEN {o.g : o \in clean_bad_synset_rels(r, CleanChunk, CleanMaxLoops)}
             ELSE {r}
    ELSE IF item.section = "derived_relationships"
    THEN {promote_named_edges(g, p.now)}
    ELSE {g}

RECURSIVE ItemsFrom(_, _, _, _, _)
ItemsFrom(c, i, p, gs, typed) ==
    IF i > Len(c.mapping.load_order) THEN gs
    ELSE ItemsFrom(c, i + 1, p,
                   UNION {ItemEffect(c, c.mapping.load_order[i], p, g, typed) : g \in gs},
                   typed)

\* the graphs one run can leave when nothing cuts it short
Uninterrupted(c, g, typed) == ItemsFrom(c, 1, Run1, {g}, typed)

\* C12: a run cut short by the database at any of its statements, a load
\* statement after any number of committed chunks, and started again on the
\* same inputs has, when its load loop ends, the nodes and relationships,
\* stamps apart, of one run that was not cut short and was given the answer
\* last typed at the cleanup prompt (validation writes nothing after that);
\* the nodes the graph held before are still there when the run is cut.
C12_Resumable ==
    /\ (pc = "validate" /\ idx = 1) =>
          UnstampedGraph(graph)
              \in {UnstampedGraph(g) : g \in Uninterrupted(cfg, hist.graph0, hist.ans)}
    /\ (pc = "raised" /\ hist.cut) =>
          /\ NoDuplicates(graph)
          /\ \A n \in DOMAIN hist.graph0.nodes :
                \E x \in DOMAIN graph.nodes : NodeIdent(x) = NodeIdent(n)

\* a run cut short between two chunks of a file has been started again and
\* has reached its end
C12_Witness ==
    /\ pc = "done"
    /\ hist.cut
    /\ hist.partial
    /\ DOMAIN graph.edges # {}

\* the nodes and relationships the run has written: ingested_at is the
\* time of the run
WrittenByRun(g) ==
    {e \in DOMAIN g.nodes \cup DOMAIN g.edges :
        "ingested_at" \in DOMAIN e.props /\ e.props["ingested_at"] = IntV(common.now)}

\* C13: every node and relationship the run has written carries
\* source_system, ingest_batch and ingested_at, and its ingest_batch is the
\* batch id of the run.
C13_ProvenanceStamped ==
    common.ingest_batch # "none" =>
        \A e \in WrittenByRun(graph) :
            /\ StampProps \subseteq DOMAIN e.props
            /\ e.props["ingest_batch"] = StrV(common.ingest_batch)

\* C13, the batch id: once the run has computed it, no step changes it
C13_BatchIdFixed == [][pc # "start" => common' = common]_vars

\* rows of semlinkref.csv whose linkid is empty or the sentinel
MissingLinkids == count_missing_col_in_csv(RowsOfSource(cfg, "semlinkref"), "linkid")

\* C14: when semlinkref.csv has n > 0 rows of empty or sentinel linkid, a
\* run that is not strict reports the warning with the count n before it
\* loads, and a strict run never comes to load.
C14_MissingLinkidPolicy ==
    LET n == MissingLinkids
    IN  (n > 0 /\ pc \in LoopPcs \cup {"validate", "done"}) =>
            /\ ~cfg.strict_missing_linkid
            /\ MissingWarning(n) \in msgs

\* C14, the strict half as claimed: a strict run over such a file sends no
\* load statement
C14_StrictNeverLoads ==
    (MissingLinkids > 0 /\ cfg.strict_missing_linkid) => Loads = <<>>

\* C14, the part of the strict half that holds: a strict run whose
\* inspection of the file has not failed sends no load statement and, when
\* it exits, exits in preflight with code 3, 4 or 6
C14_StrictFailsBeforeLoad ==
    (/\ MissingLinkids > 0 /\ cfg.strict_missing_linkid /\ driver # "none"
     /\ "WARNING: could not inspect linkid" \notin msgs) =>
        /\ Loads = <<>>
        /\ pc \in {"constraints", "preflight", "exited", "raised"}
        /\ pc = "exited" => exit \in {3, 4, 6}

\* the failure a run that has ended reported, read off its messages
FailureReported ==
    IF "ERROR: Provide --password" \in msgs THEN "credentials"
    ELSE IF "ERROR checksum mismatch" \in msgs THEN "checksum"
    ELSE IF "ERROR rowcount mismatch" \in msgs THEN "rowcount"
    ELSE IF {FailedMsg("false"), FailedMsg("null")} \cap msgs # {} THEN "validation"
    ELSE "strict_linkid"

\* C15: a run that ends on one of the five failures ends with the code of
\* that failure: 2 without credentials, 3 on a checksum mismatch, 4 on a
\* row-count mismatch, 6 on the strict missing-linkid failure, 5 on a failed
\* validation; the codes differ from one another and from 0, and a run that
\* ends otherwise ends with none of them.
C15_ExitCodes ==
    /\ pc = "exited" =>
          /\ exit # 0
          /\ (exit = 2) = (FailureReported = "credentials")
          /\ (exit = 3) = (FailureReported = "checksum")
          /\ (exit = 4) = (FailureReported = "rowcount")
          /\ (exit = 6) = (FailureReported = "strict_linkid")
          /\ (exit = 5) = (FailureReported = "validation")
          /\ FailureReported = "strict_linkid" => MissingWarning(MissingLinkids) \in msgs
    /\ pc # "exited" => exit \notin {2, 3, 4, 5, 6}

C15_Witness ==
    /\ pc = "exited" /\ exit = 6
    /\ cfg.strict_missing_linkid
    /\ MissingWarning(MissingLinkids) \in msgs

\* the relationships of g between the end nodes of e, of its type and linkid
SameEdge(g, e) == {x \in DOMAIN g.edges : EdgeIdent(x) = EdgeIdent(e)}

\* the nodes of g with the label and key of n
SameNode(g, n) == {x \in DOMAIN g.nodes : NodeIdent(x) = NodeIdent(n)}

\* a step deletes a relationship: a SET makes another element of it, a
\* DELETE leaves fewer
DeletesEdge ==
    \E e \in DOMAIN graph.edges :
        Copies(graph'.edges, SameEdge(graph', e)) < Copies(graph.edges, SameEdge(graph, e))

\* C16: a step of the run deletes a relationship only when the auto-approve
\* flag is set, or the preview flag is set and the answer typed at the
\* prompt of that step reads 'y'; no step deletes a node.
C16_CleanupNeedsApproval ==
    [][ /\ DeletesEdge =>
             \/ cfg.auto_yes_clean_null_linkid
             \/ cfg.preview_null_linkid /\ ReadAnswer(hist'.ans) = <<"y">>
        /\ \A n \in DOMAIN graph.nodes :
             Copies(graph'.nodes, SameNode(graph', n)) >= Copies(graph.nodes, SameNode(graph, n))
      ]_vars

\* the operator approved at the prompt and the relationships are gone; the
\* run had no auto-approve flag
C16_Witness ==
    /\ ~cfg.auto_yes_clean_null_linkid
    /\ cfg.preview_null_linkid
    /\ ReadAnswer(hist.ans) = <<"y">>
    /\ "Deleted null-linkid relationships" \in msgs
    /\ list_bad_synset_rels(hist.graph0) > 0
    /\ list_bad_synset_rels(graph) = 0

\* the operator declined and the relationships are all there
C16_DeclinedWitness ==
    /\ ~cfg.auto_yes_clean_null_linkid
    /\ ReadAnswer(hist.ans) # <<"y">>
    /\ "Leaving null-linkid relationships intact" \in msgs
    /\ list_bad_synset_rels(graph) = list_bad_synset_rels(hist.graph0)
    /\ list_bad_synset_rels(graph) > 0

\* load_order positions whose item is no node, relationship or
\* derived-relationship reference
UnknownItems ==
    {i \in DOMAIN cfg.mapping.load_order :
        cfg.mapping.load_order[i].section
            \notin {"nodes", "relationships", "derived_relationships"}}

\* the load loop is past position i
PastItem(i) == (pc \in LoopPcs /\ idx > i) \/ pc \in {"validate", "done"}

\* C17: no statement is sent for an unrecognized load_order item; once the
\* loop is past it the item is reported and the run has not ended on it; and
\* a run that comes to validation has executed every other item, in order.
C17_UnknownItemSkipped ==
    LET ld == Loads
        lo == cfg.mapping.load_order
    IN  /\ \A k \in DOMAIN ld : ld[k].pos \notin UnknownItems
        /\ \A i \in UnknownItems :
              /\ PastItem(i) => "Skipping unknown load_order item" \in msgs
              /\ (pc = "load" /\ idx = i + 1) => exit = 0
        /\ pc \in {"validate", "done"} =>
              /\ \A i \in DOMAIN lo \ UnknownItems : \E k \in DOMAIN ld : ld[k].pos = i
              /\ \A j, k \in DOMAIN ld : j < k => ld[j].pos <= ld[k].pos

\* a run with an unrecognized item has finished, and has loaded what comes
\* after the item
C17_Witness ==
    /\ pc = "done"
    /\ UnknownItems = {2}
    /\ "Skipping unknown load_order item" \in msgs
    /\ \E k \in DOMAIN log : log[k].pos = Len(cfg.mapping.load_order)

\* C18: a run that has ended after its driver was created has closed the
\* driver, whether it ended in success, on a preflight or validation failure
\* or on an error raised while loading.
C18_DriverClosed ==
    (pc \in {"done", "exited", "raised"} /\ driver # "none") => driver = "closed"

\* C18, the path on which it holds: a run that completes has closed the driver
C18_ClosedOnSuccess == pc = "done" => driver = "closed"

\* C19: for a field that is not nullable, of any type and transform, the
\* compiled expression evaluated on any raw column value, the empty string,
\* the sentinel and a BOM-only value among them, is not null.
C19_NonNullableNeverNull ==
    (cDone /\ ~cSpec.nullable /\ ~IsNull(cRaw)) => ~IsNull(cOut)

\* C19, the part the compiled expression keeps: a non-nullable string field
\* is never null, and is the normalised value
C19_StringNeverNull ==
    (cDone /\ ~cSpec.nullable /\ ~IsNull(cRaw) /\ cSpec.type = "string") =>
        /\ ~IsNull(cOut)
        /\ cOut = (IF cSpec.lower THEN CyToLower(CastNormalize(cRaw))
                   ELSE CastNormalize(cRaw))

-----------------------------------------------------------------------------
(* clean_bad_synset_rels, one delete statement a step. idx counts the       *)
(* iterations of its loop, last holds the count c the last statement        *)
(* returned and the running total.                                          *)

MaxChunk == 2

MaxLoops == 3

\* SYNSET relationships without linkid between the two synsets, and one with
\* a linkid, as earlier loads may have left them
SynsetAt(n) == [label |-> "synset", at |-> [k \in {"synsetid"} |-> IntV(n)]]

BadRel(a, b) ==
    [type |-> "SYNSET", from |-> SynsetAt(a), to |-> SynsetAt(b),
     props |-> Stamps(LegacyRun)]

CleanGraphs ==
    {[g EXCEPT !.edges = [e \in DOMAIN g.edges \cup {BadRel(p[1], p[2]) : p \in ps} |->
                            IF e \in DOMAIN g.edges THEN g.edges[e] ELSE 1]] :
        g \in {LegacyGraph, PriorGraph}, ps \in SUBSET ({1, 2} \X {1, 2})}

CleanInit ==
    /\ graph \in CleanGraphs
    /\ cfg \in [chunk : 1..MaxChunk, max_loops : 1..MaxLoops]
    /\ pc = "clean"
    /\ idx = 0
    /\ last = [op |-> "clean", c |-> 0, total |-> 0]
    /\ log = <<>>
    /\ hist = [graph0 |-> graph, cut |-> FALSE, partial |-> FALSE, ans |-> <<>>, run |-> 1]
    /\ cRaw = Null
    /\ cSpec = FS("string", FALSE, FALSE)
    /\ cOut = Null
    /\ cDone = TRUE
    /\ exit = 0
    /\ driver = "open"
    /\ schema = {}
    /\ msgs = {}
    /\ common = [source_system |-> "none", ingest_batch |-> "none", now |-> 0]

\* one iteration: the delete statement, total += c, break when c = 0
DeleteStatement ==
    /\ pc = "clean"
    /\ idx < cfg.max_loops
    /\ \E d \in DeleteChoices(graph, cfg.chunk) :
        LET c == Copies(d, DOMAIN d)
        IN  /\ graph' = DeleteBad(graph, d)
            /\ last' = [op |-> "clean", c |-> c, total |-> last.total + c]
            /\ pc' = IF c = 0 THEN "returned" ELSE "clean"
    /\ idx' = idx + 1
    /\ log' = Append(log, Stmt("delete_bad", "SYNSET", 0))
    /\ UNCHANGED <<cfg, exit, driver, schema, msgs, common, hist>>

\* range(max_loops) is used up: return total
LoopsUsedUp ==
    /\ pc = "clean"
    /\ idx >= cfg.max_loops
    /\ pc' = "returned"
    /\ UNCHANGED <<cfg, idx, log, exit, driver, schema, msgs, common, hist, graph, last>>

CleanNext ==
    \/ DeleteStatement /\ UNCHANGED castVars
    \/ LoopsUsedUp /\ UNCHANGED castVars

\* the call is synchronous: the loop goes on until it returns
SpecClean == CleanInit /\ [][CleanNext]_vars /\ WF_vars(CleanNext)

\* what the cleanup has left alone: the nodes, and every relationship that
\* is no SYNSET relationship without linkid
OthersUnchanged ==
    /\ graph.nodes = hist.graph0.nodes
    /\ \A e \in DOMAIN hist.graph0.edges \ BadRels(hist.graph0) :
          e \in DOMAIN graph.edges /\ graph.edges[e] = hist.graph0.edges[e]
    /\ \A e \in DOMAIN graph.edges :
          e \in DOMAIN hist.graph0.edges /\ graph.edges[e] <= hist.graph0.edges[e]

\* C20: clean_bad_synset_rels returns; it sends at most max_loops delete
\* statements, each deleting at most chunk relationships; it deletes only
\* SYNSET relationships without linkid and leaves everything else as it
\* was; the total it returns is the number deleted; and when it returns with
\* fewer than max_loops statements sent no SYNSET relationship without linkid
\* is left.
C20_CleanBounded ==
    /\ [](/\ idx <= cfg.max_loops
          /\ Len(log) = idx
          /\ last.c <= cfg.chunk
          /\ OthersUnchanged
          /\ last.total = list_bad_synset_rels(hist.graph0) - list_bad_synset_rels(graph)
          /\ (pc = "returned" /\ idx < cfg.max_loops) => list_bad_synset_rels(graph) = 0
          /\ pc = "returned" =>
                [g |-> graph, total |-> last.total, sent |-> idx]
                    \in clean_bad_synset_rels(hist.graph0, cfg.chunk, cfg.max_loops))
    /\ <>(pc = "returned")

\* the loop has used up its iterations and relationships without linkid are
\* left, the others deleted chunk by chunk
C20_Witness ==
    /\ pc = "returned"
    /\ idx = cfg.max_loops
    /\ last.total = cfg.chunk * cfg.max_loops
    /\ last.total > 1
    /\ list_bad_synset_rels(graph) > 0

\* the loop has stopped on an empty delete before its iterations were used up
C20_StoppedEarlyWitness ==
    /\ pc = "returned"
    /\ idx < cfg.max_loops
    /\ last.c = 0
    /\ last.total > 0

-----------------------------------------------------------------------------
(* The skip guard against the compiled key expression *)

\* a raw value built from BOM, blanks, the sentinel and digits
RECURSIVE FromKeyTokens(_)
FromKeyTokens(s) ==
    \/ s = <<>>
    \/ Head(s) \in {BOM, SP} \cup Digits /\ FromKeyTokens(Tail(s))
    \/ Len(s) >= 2 /\ SubSeq(s, 1, 2) = Sentinel /\ FromKeyTokens(SubSeq(s, 3, Len(s)))

\* the FieldSpec of the linkid of semantic_SYNSET
LinkidSpec ==
    LET f == RelSpecs["semantic_SYNSET"].properties["linkid"]
    IN  FS(f.type, f.lower, f.nullable)

\* C21: for a raw value built from BOM, blanks, the sentinel and digits, the
\* row passes the skip guard exactly when the key expression compiled by
\* type_cast is neither null nor empty; and for the linkid of a row that
\* passes the guard, the value in the MERGE pattern is the value the SET
\* clause writes.
C21_GuardMatchesKey ==
    (cDone /\ ~IsNull(cRaw) /\ FromKeyTokens(cRaw.s) /\ ~cSpec.nullable) =>
        /\ GuardPass(cRaw) = (~IsNull(cOut) /\ cOut # StrV(Empty))
        /\ (cSpec = LinkidSpec /\ GuardPass(cRaw)) => RefInteger(cRaw) = cOut

\* C21, what the two normalisations agree on: on a value without a BOM the
\* guard of a string key passes exactly when the key is not empty
C21_AgreeWithoutBOM ==
    (cDone /\ ~IsNull(cRaw) /\ FromKeyTokens(cRaw.s) /\ ~cSpec.nullable
       /\ cSpec.type = "string" /\ \A i \in DOMAIN cRaw.s : cRaw.s[i] # BOM) =>
        GuardPass(cRaw) = (~IsNull(cOut) /\ cOut # StrV(Empty))

-----------------------------------------------------------------------------
(* The frame of a relationship load *)

\* no node of g has the label and the keys the row names for this end,
\* read as match_expr reads them
EndMissing(g, end, row) ==
    ~\E n \in DOMAIN g.nodes :
        /\ n.label = end.label
        /\ \A k \in end.match_on :
             /\ k.prop \in DOMAIN n.props
             /\ ~IsNull(RefInteger(row[k.col]))
             /\ n.props[k.prop] = RefInteger(row[k.col])

\* the node a relationship names as an end is in g
EndExists(g, ref) ==
    \E n \in DOMAIN g.nodes :
        /\ n.label = ref.label
        /\ \A k \in DOMAIN ref.at : k \in DOMAIN n.props /\ n.props[k] = ref.at[k]

\* C22: a relationship load over any source file leaves the nodes of the
\* graph as they were, a row whose from or to node is not in the graph
\* creates and matches no relationship, and no relationship of the graph
\* names an end node the graph does not hold.
C22_RelLoadKeepsNodes ==
    /\ \A st \in RelStatements :
         \A rows \in Files(st.spec.source) :
           LET r == Exec(st, rows, OneChunk, Run1, graph)
           IN  /\ r.g.nodes = graph.nodes
               /\ \A i \in DOMAIN rows :
                    (EndMissing(graph, st.spec.from, rows[i])
                       \/ EndMissing(graph, st.spec.to, rows[i])) =>
                        (i <= Len(r.out) => r.out[i] \notin {"created", "matched"})
    /\ \A e \in DOMAIN graph.edges : EndExists(graph, e.from) /\ EndExists(graph, e.to)

\* a relationship load has made relationships in a graph that holds synset
\* 1 and not synset 2, the to node of every semlinkref row
C22_Witness ==
    /\ last.op = "rels"
    /\ ~EndMissing(graph, RelSpecs["semantic_SYNSET"].from, SemlinkrefRow(S1))
    /\ EndMissing(graph, RelSpecs["semantic_SYNSET"].to, SemlinkrefRow(S1))
    /\ DOMAIN graph.edges # {}

====
